---- MODULE Spec2Model ----
(***************************************************************************)
(* Population-graph preprocessing of brain-age-gnn: the edge constructor,  *)
(* the subject splitters and their masks, the similarity strategies and    *)
(* the feature pipeline of construct_population_graph                      *)
(* (src/preprocess.py, src/similarity.py).                                 *)
(*                                                                         *)
(* Positions into the subject index are 0-based as in the source; a Python *)
(* list or array of length n is a TLA+ sequence whose element k+1 is the   *)
(* source's element k.  A float score is the exact rational [num, den].    *)
(***************************************************************************)
EXTENDS Integers, Sequences, FiniteSets

VARIABLES
    \* construct_edge_list
    index, sim_table, similarity_threshold, e_pc, e_i, e_j, v_list, w_list,
    edge_list,
    \* get_random_subject_split, get_stratified_subject_split, get_subject_split_masks
    strategy, num_subjects, s_pc, train_val_idx, train_validate_index, inner_split,
    train_idx, validate_idx, test_idx, split_masks,
    \* sex_similarity, get_similarity, custom_similarity_function
    sim_strategy, feature_list, biobank_codes, phenotypes, subject_i, subject_j,
    sim_pc, sim_k, total_score, sim_result, call_no, first_result,
    \* construct_population_graph
    g_pc, functional, pca, structural, euler, subject_ids, provided,
    functional_data, structural_data, euler_data, features, labels, g_masks,
    connectivity_pca, structural_scaler, euler_scaler,
    feature_tensor, label_tensor, train_mask, validate_mask, test_mask,
    edge_index, population_graph

edge_vars == <<index, sim_table, similarity_threshold, e_pc, e_i, e_j, v_list, w_list, edge_list>>

split_vars == <<strategy, num_subjects, s_pc, train_val_idx, train_validate_index, inner_split, train_idx, validate_idx, test_idx, split_masks>>

sim_vars == <<sim_strategy, feature_list, biobank_codes, phenotypes, subject_i, subject_j, sim_pc, sim_k, total_score, sim_result, call_no, first_result>>

pipeline_vars == <<functional, pca, structural, euler, provided, functional_data, structural_data, euler_data, features, labels, g_masks, connectivity_pca, structural_scaler, euler_scaler>>

assembly_vars == <<feature_tensor, label_tensor, train_mask, validate_mask, test_mask, edge_index, population_graph>>

graph_vars == <<g_pc, subject_ids, pipeline_vars, assembly_vars>>

vars == <<edge_vars, split_vars, sim_vars, graph_vars>>

not_edge_vars == <<split_vars, sim_vars, graph_vars>>

not_split_vars == <<edge_vars, sim_vars, graph_vars>>

not_sim_vars == <<edge_vars, split_vars, graph_vars>>

not_graph_vars == <<edge_vars, split_vars, sim_vars>>

\* Largest subject index handed to construct_edge_list.
MaxSubjects == 3

\* Largest subject count handed to get_random_subject_split: from 20 subjects
\* on floor(0.05 N) is positive and the validation set is not empty.
MaxRandomSubjects == 20

\* Largest subject count handed to get_stratified_subject_split.
MaxStratSubjects == 4

\* Longest feature_list handed to custom_similarity_function.
MaxFeatures == 2

\* Largest number of subjects of a construct_population_graph run.
MaxGraphSubjects == 3

\* Largest row count, label count, mask length and subject count handed to
\* the graph assembly.
MaxDim == 2

\* ------------------------------------------------------------------------
\* A component that is not running: its variables at rest.

IdleEdges ==
    /\ index = <<>>
    /\ sim_table = <<>>
    /\ similarity_threshold = [num |-> 1, den |-> 2]
    /\ e_pc = "idle"
    /\ e_i = 0
    /\ e_j = 0
    /\ v_list = <<>>
    /\ w_list = <<>>
    /\ edge_list = <<>>

IdleSplit ==
    /\ strategy = "none"
    /\ num_subjects = 0
    /\ s_pc = "idle"
    /\ train_val_idx = {}
    /\ train_validate_index = <<>>
    /\ inner_split = <<{}, {}>>
    /\ train_idx = {}
    /\ validate_idx = {}
    /\ test_idx = {}
    /\ split_masks = [raised |-> "none", masks |-> <<>>]

IdleSim ==
    /\ sim_strategy = "none"
    /\ feature_list = <<>>
    /\ biobank_codes = <<>>
    /\ phenotypes = <<>>
    /\ subject_i = 0
    /\ subject_j = 0
    /\ sim_pc = "idle"
    /\ sim_k = 0
    /\ total_score = 0
    /\ sim_result = [num |-> 0, den |-> 1]
    /\ call_no = 0
    /\ first_result = [num |-> 0, den |-> 1]

IdlePipeline ==
    /\ functional = FALSE
    /\ pca = FALSE
    /\ structural = FALSE
    /\ euler = FALSE
    /\ provided = [functional |-> <<>>, structural |-> <<>>, euler |-> <<>>, ages |-> <<>>]
    /\ functional_data = <<>>
    /\ structural_data = <<>>
    /\ euler_data = <<>>
    /\ features = [raised |-> "none", rows |-> <<>>]
    /\ labels = <<>>
    /\ g_masks = [raised |-> "none", masks |-> <<>>]
    /\ connectivity_pca = [fitted |-> FALSE, rows |-> <<>>]
    /\ structural_scaler = [fitted |-> FALSE, n |-> 0, sum |-> 0, sumsq |-> 0]
    /\ euler_scaler = [fitted |-> FALSE, n |-> 0, sum |-> 0, sumsq |-> 0]

IdleAssembly ==
    /\ feature_tensor = <<>>
    /\ label_tensor = <<>>
    /\ train_mask = <<>>
    /\ validate_mask = <<>>
    /\ test_mask = <<>>
    /\ edge_index = <<<<>>, <<>>>>
    /\ population_graph = [returned |-> FALSE]

IdleGraph ==
    /\ g_pc = "idle"
    /\ subject_ids = <<>>
    /\ IdlePipeline
    /\ IdleAssembly

\* ------------------------------------------------------------------------
\* Scores and thresholds

\* The exact value num/den of a score or threshold.
R(n, d) == [num |-> n, den |-> d]

\* The scores a similarity function over at most two attributes returns.
ScoreValues == {R(0, 1), R(1, 2), R(1, 1)}

\* similarity_threshold: the default 0.5 and the two ends of the score range.
Thresholds == {R(0, 1), R(1, 2), R(1, 1)}

ExceedsOrEqual(score, threshold) == score.num * threshold.den >= threshold.num * score.den

\* score > threshold (src/preprocess.py:132), denominators positive.
Exceeds(score, threshold) == score.num * threshold.den > threshold.num * score.den

\* ------------------------------------------------------------------------
\* construct_edge_list (src/preprocess.py:111-136)

\* phenotypes.index: the subject identifiers, distinct from their positions.
SubjectIndex(n) == [k \in 1..n |-> 100 + k]

\* The positions (i, j), i < j, of a subject index of length n.
UpperPairs(n) == {p \in (0..(n - 1)) \X (0..(n - 1)) : p[1] < p[2]}

\* The calls similarity_function(phenotypes, id_i, id_j) the loop can make.
IdPairs(idx) == {<<idx[p[1] + 1], idx[p[2] + 1]>> : p \in UpperPairs(Len(idx))}

\* v_list.extend([i, j])
VExtend(v, i, j) == v \o <<i, j>>

WExtendSame(w, i, j) == w \o <<i, j>>

\* w_list.extend([j, i])
WExtend(w, i, j) == w \o <<j, i>>

InitEdges ==
    /\ IdleSplit
    /\ IdleSim
    /\ IdleGraph
    /\ \E n \in 0..MaxSubjects :
         /\ index = SubjectIndex(n)
         /\ sim_table \in [IdPairs(SubjectIndex(n)) -> ScoreValues]
    /\ similarity_threshold \in Thresholds
    /\ e_pc = "outer"
    /\ e_i = 0
    /\ e_j = 0
    /\ v_list = <<>>
    /\ w_list = <<>>
    /\ edge_list = <<>>

\* for i, id_i in enumerate(phenotypes.index): iter_j skips the first i + 1 items.
EdgeOuterNext ==
    /\ e_pc = "outer"
    /\ e_i < Len(index)
    /\ e_j' = e_i + 1
    /\ e_pc' = "inner"
    /\ UNCHANGED <<index, sim_table, similarity_threshold, e_i, v_list, w_list, edge_list>>
    /\ UNCHANGED not_edge_vars

\* for j, id_j in iter_j: the comparison and the two extends.
EdgeInnerStep ==
    /\ e_pc = "inner"
    /\ e_j < Len(index)
    /\ LET score == sim_table[<<index[e_i + 1], index[e_j + 1]>>]
       IN  IF Exceeds(score, similarity_threshold)
           THEN /\ v_list' = VExtend(v_list, e_i, e_j)
                /\ w_list' = WExtend(w_list, e_i, e_j)
           ELSE UNCHANGED <<v_list, w_list>>
    /\ e_j' = e_j + 1
    /\ UNCHANGED <<index, sim_table, similarity_threshold, e_pc, e_i, edge_list>>
    /\ UNCHANGED not_edge_vars

\* iter_j is exhausted: back to the outer loop.
EdgeInnerEnd ==
    /\ e_pc = "inner"
    /\ e_j >= Len(index)
    /\ e_i' = e_i + 1
    /\ e_pc' = "outer"
    /\ UNCHANGED <<index, sim_table, similarity_threshold, e_j, v_list, w_list, edge_list>>
    /\ UNCHANGED not_edge_vars

\* return [v_list, w_list]
EdgeReturn ==
    /\ e_pc = "outer"
    /\ e_i >= Len(index)
    /\ edge_list' = <<v_list, w_list>>
    /\ e_pc' = "done"
    /\ UNCHANGED <<index, sim_table, similarity_threshold, e_i, e_j, v_list, w_list>>
    /\ UNCHANGED not_edge_vars

NextEdges ==
    \/ EdgeOuterNext
    \/ EdgeInnerStep
    \/ EdgeInnerEnd
    \/ EdgeReturn

SpecEdges == InitEdges /\ [][NextEdges]_vars

\* The directed pairs of a returned edge list, in order.
EdgePairs(el) == [k \in 1..Len(el[1]) |-> <<el[1][k], el[2][k]>>]

EdgeSet(el) == {EdgePairs(el)[k] : k \in 1..Len(el[1])}

\* The position pairs whose score is strictly above the threshold.
Qualifying ==
    {p \in UpperPairs(Len(index)) :
        LET s == sim_table[<<index[p[1] + 1], index[p[2] + 1]>>]
        IN  s.num * similarity_threshold.den > similarity_threshold.num * s.den}

LexLess(p, q) == p[1] < q[1] \/ (p[1] = q[1] /\ p[2] < q[2])

\* C1: the returned edge list is symmetric ((u,v) present iff (v,u) present)
\* and has no self-loop, whatever the index, similarity scores and threshold.
EdgeListSymmetricIrreflexive ==
    e_pc = "done" =>
        /\ Len(edge_list[1]) = Len(edge_list[2])
        /\ \A e \in EdgeSet(edge_list) :
             /\ <<e[2], e[1]>> \in EdgeSet(edge_list)
             /\ e[1] # e[2]

\* C1 witness: a call has returned at least one edge.
EdgeListNonEmptyReturned ==
    /\ e_pc = "done"
    /\ Len(edge_list[1]) >= 4

\* C2: the returned list holds, for exactly the pairs i<j whose score is
\* strictly above the threshold, visited once each in lexicographic order,
\* the directed pair (i,j) immediately followed by (j,i); a score equal to
\* the threshold gives no edge; the list is a function of the inputs alone.
EdgeListExactSequence ==
    e_pc = "done" =>
        LET ps == EdgePairs(edge_list)
            m  == Cardinality(Qualifying)
        IN  /\ Len(edge_list[1]) = 2 * m
            /\ Len(edge_list[2]) = 2 * m
            /\ \A k \in 1..m :
                 /\ ps[2 * k - 1] \in Qualifying
                 /\ ps[2 * k] = <<ps[2 * k - 1][2], ps[2 * k - 1][1]>>
            /\ \A k \in 1..(m - 1) : LexLess(ps[2 * k - 1], ps[2 * k + 1])
            /\ \A p \in UpperPairs(Len(index)) :
                 sim_table[<<index[p[1] + 1], index[p[2] + 1]>>] = similarity_threshold
                     => p \notin EdgeSet(edge_list)

\* C2 witness: a returned list with two undirected edges where another pair
\* scored exactly the threshold and was left out.
EdgeListTieExcluded ==
    /\ e_pc = "done"
    /\ Len(edge_list[1]) = 4
    /\ \E p \in UpperPairs(Len(index)) :
         sim_table[<<index[p[1] + 1], index[p[2] + 1]>>] = similarity_threshold

\* ------------------------------------------------------------------------
\* Subject splitters (src/preprocess.py:139-184).  An index array holds
\* distinct entries (np.random.choice with replace=False, set differences,
\* sklearn's permutations) and is modelled as the set of its entries, except
\* train_validate_index, whose order the stratified splitter indexes into.

\* The subsets of S with at most k members.
RECURSIVE UpTo(_, _)
UpTo(S, k) == IF k = 0 THEN {{}} ELSE LET prev == UpTo(S, k - 1) IN prev \cup {T \cup {x} : T \in prev, x \in S}

\* np.random.choice(S, k, replace=False): every k-subset of S is a possible draw.
Choice(S, k) ==
    LET n == Cardinality(S)
    IN  IF 2 * k > n
        THEN {S \ T : T \in {U \in UpTo(S, n - k) : Cardinality(U) = n - k}}
        ELSE {U \in UpTo(S, k) : Cardinality(U) = k}

\* int(num_subjects * 0.85): the float product truncates to floor(85 n / 100)
\* for every n below 2 000 000 (checked against the float arithmetic).
NumTrain(n) == (n * 85) \div 100

\* int(num_subjects * 0.05)
NumValidate(n) == (n * 5) \div 100

ValidateOfWholePool(pool, train) == pool

\* list(set(train_val_idx) - set(train_idx))
ValidateOf(pool, train) == pool \ train

\* list(set(range(num_subjects)) - set(train_val_idx))
TestOf(n, pool) == (0..(n - 1)) \ pool

\* The three assertions of get_random_subject_split.
SplitAssertionsHold(train, validate, test) ==
    /\ train \cap validate = {}
    /\ train \cap test = {}
    /\ validate \cap test = {}

InitSplit ==
    /\ IdleEdges
    /\ IdleSim
    /\ IdleGraph
    /\ strategy \in {"random", "stratified"}
    /\ num_subjects \in 0..(IF strategy = "random" THEN MaxRandomSubjects ELSE MaxStratSubjects)
    /\ s_pc = "split"
    /\ train_val_idx = {}
    /\ train_validate_index = <<>>
    /\ inner_split = <<{}, {}>>
    /\ train_idx = {}
    /\ validate_idx = {}
    /\ test_idx = {}
    /\ split_masks = [raised |-> "none", masks |-> <<>>]

\* get_random_subject_split(num_subjects, seed): the seed fixes the two
\* draws (drawing no sample from an empty population returns an empty array).
RandomSplit ==
    /\ s_pc = "split"
    /\ strategy = "random"
    /\ \E pool \in Choice(0..(num_subjects - 1), NumTrain(num_subjects) + NumValidate(num_subjects)) :
         \E train \in Choice(pool, NumTrain(num_subjects)) :
            /\ train_val_idx' = pool
            /\ train_idx' = train
            /\ validate_idx' = ValidateOf(pool, train)
            /\ test_idx' = TestOf(num_subjects, pool)
            /\ s_pc' = IF SplitAssertionsHold(train, ValidateOf(pool, train), TestOf(num_subjects, pool))
                       THEN "returned"
                       ELSE "AssertionError"
    /\ UNCHANGED <<strategy, num_subjects, train_validate_index, inner_split, split_masks>>
    /\ UNCHANGED not_split_vars

\* The orders in which an array can hold the members of S.
Arrangements(S) ==
    {a \in [1..Cardinality(S) -> S] : \A x, y \in 1..Cardinality(S) : a[x] = a[y] => x = y}

Range(a) == {a[k] : k \in DOMAIN a}

\* ceil(0.1 * n) of sklearn's size validation for test_size=0.1 (equal to
\* the float computation for every n below 100 000).
TenthCeil(n) == (n + 9) \div 10

\* One StratifiedShuffleSplit(n_splits=1, test_size).split over n samples
\* with n_test held-out samples yields one pair: a shuffled first part of
\* n - n_test positions and the held-out rest, together all of [0, n).
\* Which pair depends on the labels and the random state; every such pair
\* is a possible outcome.  sklearn raises when a part would be empty.
ShuffleSplits(n, n_test) ==
    IF n_test < 1 \/ n - n_test < 1
    THEN {}
    ELSE {<<a, (0..(n - 1)) \ Range(a)>> :
            a \in UNION {Arrangements(T) : T \in {U \in SUBSET (0..(n - 1)) : Cardinality(U) = n - n_test}}}

IndexThroughIdentity(array, positions) == positions

\* array[positions]: numpy indexing of an array by an array of positions.
IndexThrough(array, positions) == {array[p + 1] : p \in positions}
\* Lines 158-169 for one outcome of the outer split and one of the inner
\* split: the inner positions index train_validate_index.
StratifiedResult(outer, inner) ==
    <<IndexThrough(outer[1], Range(inner[1])), IndexThrough(outer[1], inner[2]), outer[2]>>

\* get_stratified_subject_split(features, labels, test_size): both sampling
\* steps succeed.  test_size is the caller's; the inner split holds out 0.1.
StratifiedSplit ==
    /\ s_pc = "split"
    /\ strategy = "stratified"
    /\ \E n_test \in 1..num_subjects :
         \E outer \in ShuffleSplits(num_subjects, n_test) :
            \E inner \in ShuffleSplits(Len(outer[1]), TenthCeil(Len(outer[1]))) :
               /\ train_validate_index' = outer[1]
               /\ inner_split' = <<Range(inner[1]), inner[2]>>
               /\ train_idx' = StratifiedResult(outer, inner)[1]
               /\ validate_idx' = StratifiedResult(outer, inner)[2]
               /\ test_idx' = StratifiedResult(outer, inner)[3]
    /\ s_pc' = "returned"
    /\ UNCHANGED <<strategy, num_subjects, train_val_idx, split_masks>>
    /\ UNCHANGED not_split_vars

\* A sampling step raises ValueError: a part would be empty, or a label
\* class has too few members for the split (the labels decide).
StratifiedSplitFails ==
    /\ s_pc = "split"
    /\ strategy = "stratified"
    /\ s_pc' = "ValueError"
    /\ UNCHANGED <<strategy, num_subjects, train_val_idx, train_validate_index, inner_split, train_idx, validate_idx, test_idx, split_masks>>
    /\ UNCHANGED not_split_vars

NumSubjectsWithoutTest(train, validate, test) == Cardinality(train) + Cardinality(validate)

\* num_subjects = len(train_index) + len(validate_index) + len(test_index)
NumSubjects(train, validate, test) == Cardinality(train) + Cardinality(validate) + Cardinality(test)

\* np.zeros(n, dtype=bool) with mask[idx] = True; position k is element k + 1.
Mask(n, idx) == [k \in 1..n |-> (k - 1) \in idx]

\* mask[idx] = True raises IndexError for an index outside [0, n).
InRange(n, idx) == \A x \in idx : 0 <= x /\ x < n

\* get_subject_split_masks(train_index, validate_index, test_index)
GetSubjectSplitMasks(train, validate, test) ==
    LET n == NumSubjects(train, validate, test)
    IN  IF InRange(n, train) /\ InRange(n, validate) /\ InRange(n, test)
        THEN [raised |-> "none", masks |-> <<Mask(n, train), Mask(n, validate), Mask(n, test)>>]
        ELSE [raised |-> "IndexError", masks |-> <<>>]

\* The masks of the index sets the splitter returned.
SplitMasks ==
    /\ s_pc = "returned"
    /\ split_masks' = GetSubjectSplitMasks(train_idx, validate_idx, test_idx)
    /\ s_pc' = "masked"
    /\ UNCHANGED <<strategy, num_subjects, train_val_idx, train_validate_index, inner_split, train_idx, validate_idx, test_idx>>
    /\ UNCHANGED not_split_vars

NextSplit ==
    \/ RandomSplit
    \/ StratifiedSplit
    \/ StratifiedSplitFails
    \/ SplitMasks

SpecSplit == InitSplit /\ [][NextSplit]_vars

AllPositions == 0..(num_subjects - 1)

PairwiseDisjointCover ==
    /\ train_idx \cap validate_idx = {}
    /\ train_idx \cap test_idx = {}
    /\ validate_idx \cap test_idx = {}
    /\ train_idx \cup validate_idx \cup test_idx = AllPositions

\* C3: get_random_subject_split returns three pairwise disjoint index sets
\* whose union is [0,N), of sizes floor(0.85N), floor(0.05N) and the rest
\* (85/5/10 for N=100), and none of its three assertions fails.
RandomSplitPartition ==
    /\ s_pc # "AssertionError"
    /\ (strategy = "random" /\ s_pc \in {"returned", "masked"}) =>
          /\ PairwiseDisjointCover
          /\ Cardinality(train_idx) = (85 * num_subjects) \div 100
          /\ Cardinality(validate_idx) = (5 * num_subjects) \div 100
          /\ Cardinality(test_idx) = num_subjects - Cardinality(train_idx) - Cardinality(validate_idx)
    /\ NumTrain(100) = 85 /\ NumValidate(100) = 5

\* C3 witness: a random split of 20 subjects has returned, validation set
\* not empty.
RandomSplitReturnedWithValidation ==
    /\ strategy = "random"
    /\ s_pc = "returned"
    /\ num_subjects = 20
    /\ validate_idx # {}
    /\ test_idx # {}

\* C4: for the index sets of either splitter over N subjects, each mask has
\* length N and every position is True in exactly one of the three masks.
MasksPartitionPositions ==
    s_pc = "masked" =>
        /\ split_masks.raised = "none"
        /\ \A m \in 1..3 : Len(split_masks.masks[m]) = num_subjects
        /\ \A k \in 1..num_subjects :
             Cardinality({m \in 1..3 : split_masks.masks[m][k]}) = 1
        /\ Cardinality({c \in (1..3) \X (1..num_subjects) : split_masks.masks[c[1]][c[2]]}) = num_subjects

\* C4 witness: masks were computed with True positions in all three.
MasksComputedAllNonEmpty ==
    /\ s_pc = "masked"
    /\ split_masks.raised = "none"
    /\ \A m \in 1..3 : \E k \in 1..num_subjects : split_masks.masks[m][k]

\* C10: the stratified splitter returns positions of the original [0,N):
\* pairwise disjoint, covering [0,N), test being the first step's held-out
\* set and train/validate the first part's entries at the inner positions.
StratifiedSplitPartition ==
    (strategy = "stratified" /\ s_pc \in {"returned", "masked"}) =>
        /\ PairwiseDisjointCover
        /\ test_idx = AllPositions \ Range(train_validate_index)
        /\ validate_idx \subseteq Range(train_validate_index)
        /\ train_idx = {train_validate_index[p + 1] : p \in inner_split[1]}
        /\ validate_idx = {train_validate_index[p + 1] : p \in inner_split[2]}

\* C10 witness: a stratified split returned whose first part is shuffled, so
\* that a validation position differs from the subject it stands for.
StratifiedSplitShuffledReturned ==
    /\ strategy = "stratified"
    /\ s_pc = "returned"
    /\ \E p \in inner_split[2] : train_validate_index[p + 1] # p
    /\ validate_idx # {}

\* ------------------------------------------------------------------------
\* Similarity strategies (src/similarity.py, src/preprocess.py:96-108)

\* The features a feature_list can name.
Features == {"SEX", "AGE", "MENTAL_HEALTH"}

\* What Phenotype.get_biobank_codes returns in the runs considered: one
\* column for sex, two longitudinal instances for age, two entries for the
\* mental-health feature (the first is the overall diagnosis).
CodeLayouts ==
    {[SEX |-> <<"31-0.0">>,
      AGE |-> <<"21003-0.0", "21003-2.0">>,
      MENTAL_HEALTH |-> <<"20544-0.1", "20544-0.2">>]}

\* One subject's row of the phenotype table; 'NaN' is the missing entry
\* the similarity code tests for.
PhenotypeRows ==
    [{"31-0.0"} -> {"M", "F"}] \X [{"21003-0.0", "21003-2.0"} -> {"NaN", "a", "b"}]
        \X [{"20544-0.1"} -> {"x", "y"}]

RowOf(r) ==
    [c \in {"31-0.0", "21003-0.0", "21003-2.0", "20544-0.1", "20544-0.2"} |->
        IF c = "31-0.0" THEN r[1][c]
        ELSE IF c \in {"21003-0.0", "21003-2.0"} THEN r[2][c]
        ELSE IF c = "20544-0.1" THEN r[3][c]
        ELSE "NaN"]

\* The phenotype tables of the two subjects 101 and 102.
PhenotypeTables == {[s \in {101, 102} |-> RowOf(IF s = 101 THEN p[1] ELSE p[2])] : p \in PhenotypeRows \X PhenotypeRows}

\* The feature lists of length at most n.
FeatureLists(n) == UNION {[1..m -> Features] : m \in 0..n}

\* int(a == b)
Indicator(b) == IF b THEN 1 ELSE 0

\* SEX_UID (src/preprocess.py:34)
SEX_UID == "31-0.0"

\* sex_similarity(phenotypes, subject_i, subject_j) (src/similarity.py:14-15)
SexSimilarity(phen, codes, si, sj) == Indicator(phen[si][codes["SEX"][1]] = phen[sj][codes["SEX"][1]])

\* get_similarity(phenotypes, subject_i, subject_j) (src/preprocess.py:108)
GetSimilarity(phen, si, sj) == Indicator(phen[si][SEX_UID] = phen[sj][SEX_UID])

Largest(S) == CHOOSE x \in S : \A y \in S : y <= x

\* Lines 49-53: the last column, scanning in reverse, whose value for
\* subject_i is not 'NaN'; the first column when there is none.
InstanceI(phen, si, cols) ==
    LET hits == {k \in 1..Len(cols) : phen[si][cols[k]] # "NaN"}
    IN  IF hits = {} THEN cols[1] ELSE cols[Largest(hits)]

\* Lines 54-58: as written, "if not phenotypes.loc[subject_j, f] != 'NaN'":
\* the last column whose value for subject_j IS 'NaN'; the first column when
\* there is none.
InstanceJ(phen, sj, cols) ==
    LET hits == {k \in 1..Len(cols) : ~(phen[sj][cols[k]] # "NaN")}
    IN  IF hits = {} THEN cols[1] ELSE cols[Largest(hits)]

\* Lines 41-63: what one feature adds to total_score.
FeatureScore(phen, codes, si, sj, feature) ==
    LET biobank_feature == codes[feature]
    IN  IF feature = "MENTAL_HEALTH"
        THEN Indicator(phen[si][biobank_feature[1]] = phen[sj][biobank_feature[1]])
        ELSE IF Len(biobank_feature) > 1
        THEN Indicator(phen[si][InstanceI(phen, si, biobank_feature)]
                         = phen[sj][InstanceJ(phen, sj, biobank_feature)])
        ELSE Indicator(phen[si][biobank_feature[1]] = phen[sj][biobank_feature[1]])

AverageOverOneMore(total, n) == [num |-> total, den |-> n + 1]

\* total_score * 1.0 / len(feature_list), n > 0
Average(total, n) == [num |-> total, den |-> n]

InitSim ==
    /\ IdleEdges
    /\ IdleSplit
    /\ IdleGraph
    /\ sim_strategy \in {"sex_similarity", "get_similarity", "custom"}
    /\ feature_list \in (IF sim_strategy = "custom" THEN FeatureLists(MaxFeatures) ELSE {<<>>})
    /\ biobank_codes \in CodeLayouts
    /\ phenotypes \in PhenotypeTables
    /\ subject_i = 101
    /\ subject_j = 102
    /\ sim_pc = "call"
    /\ sim_k = 0
    /\ total_score = 0
    /\ sim_result = R(0, 1)
    /\ call_no = 1
    /\ first_result = R(0, 1)

\* similarity.sex_similarity: one expression.
SexSimilarityCall ==
    /\ sim_pc = "call"
    /\ sim_strategy = "sex_similarity"
    /\ sim_result' = R(SexSimilarity(phenotypes, biobank_codes, subject_i, subject_j), 1)
    /\ sim_pc' = "returned"
    /\ UNCHANGED <<sim_strategy, feature_list, biobank_codes, phenotypes, subject_i, subject_j, sim_k, total_score, call_no, first_result>>
    /\ UNCHANGED not_sim_vars

\* preprocess.get_similarity: one expression.
GetSimilarityCall ==
    /\ sim_pc = "call"
    /\ sim_strategy = "get_similarity"
    /\ sim_result' = R(GetSimilarity(phenotypes, subject_i, subject_j), 1)
    /\ sim_pc' = "returned"
    /\ UNCHANGED <<sim_strategy, feature_list, biobank_codes, phenotypes, subject_i, subject_j, sim_k, total_score, call_no, first_result>>
    /\ UNCHANGED not_sim_vars

\* Lines 35-37: total_score = 0, and the early "return 0" of an empty list.
CustomEnter ==
    /\ sim_pc = "call"
    /\ sim_strategy = "custom"
    /\ total_score' = 0
    /\ IF Len(feature_list) = 0
       THEN /\ sim_result' = R(0, 1)
            /\ sim_pc' = "returned"
            /\ UNCHANGED sim_k
       ELSE /\ sim_k' = 1
            /\ sim_pc' = "loop"
            /\ UNCHANGED sim_result
    /\ UNCHANGED <<sim_strategy, feature_list, biobank_codes, phenotypes, subject_i, subject_j, call_no, first_result>>
    /\ UNCHANGED not_sim_vars

\* Lines 40-63: one iteration of "for feature in feature_list".
CustomFeature ==
    /\ sim_pc = "loop"
    /\ sim_k <= Len(feature_list)
    /\ total_score' = total_score + FeatureScore(phenotypes, biobank_codes, subject_i, subject_j, feature_list[sim_k])
    /\ sim_k' = sim_k + 1
    /\ UNCHANGED <<sim_strategy, feature_list, biobank_codes, phenotypes, subject_i, subject_j, sim_pc, sim_result, call_no, first_result>>
    /\ UNCHANGED not_sim_vars

\* Line 64: the division; dividing by an empty list's length raises.
CustomReturn ==
    /\ sim_pc = "loop"
    /\ sim_k > Len(feature_list)
    /\ IF Len(feature_list) = 0
       THEN /\ sim_pc' = "ZeroDivisionError"
            /\ UNCHANGED sim_result
       ELSE /\ sim_result' = Average(total_score, Len(feature_list))
            /\ sim_pc' = "returned"
    /\ UNCHANGED <<sim_strategy, feature_list, biobank_codes, phenotypes, subject_i, subject_j, sim_k, total_score, call_no, first_result>>
    /\ UNCHANGED not_sim_vars

\* The same function is called again with the two subjects exchanged.
SwappedCall ==
    /\ sim_pc = "returned"
    /\ call_no = 1
    /\ first_result' = sim_result
    /\ subject_i' = subject_j
    /\ subject_j' = subject_i
    /\ call_no' = 2
    /\ sim_pc' = "call"
    /\ UNCHANGED <<sim_strategy, feature_list, biobank_codes, phenotypes, sim_k, total_score, sim_result>>
    /\ UNCHANGED not_sim_vars

NextSim ==
    \/ SexSimilarityCall
    \/ GetSimilarityCall
    \/ CustomEnter
    \/ CustomFeature
    \/ CustomReturn
    \/ SwappedCall

SpecSim == InitSim /\ [][NextSim]_vars

\* C6: every similarity strategy gives the same score to (i, j) and (j, i).
SimilaritySymmetric ==
    (sim_pc = "returned" /\ call_no = 2) => sim_result = first_result

AllMissing(phen, s, cols) == \A k \in 1..Len(cols) : phen[s][cols[k]] = "NaN"

\* C7: an attribute with several longitudinal columns, all of them missing
\* for both subjects, adds 0 to total_score (a non-match).
BothMissingAddsZero ==
    [][(/\ sim_pc = "loop"
        /\ sim_k <= Len(feature_list)
        /\ feature_list[sim_k] # "MENTAL_HEALTH"
        /\ Len(biobank_codes[feature_list[sim_k]]) > 1
        /\ AllMissing(phenotypes, subject_i, biobank_codes[feature_list[sim_k]])
        /\ AllMissing(phenotypes, subject_j, biobank_codes[feature_list[sim_k]]))
       => total_score' = total_score]_vars

RECURSIVE SumOfIndicators(_)
SumOfIndicators(k) ==
    IF k = 0 THEN 0
    ELSE SumOfIndicators(k - 1) + FeatureScore(phenotypes, biobank_codes, subject_i, subject_j, feature_list[k])

\* The features compared on their first column alone.
FirstColumnFeatures == {"SEX", "MENTAL_HEALTH"}

\* The places of feature_list whose feature has equal first-column values
\* for the two subjects.
FirstColumnMatches ==
    {k \in 1..Len(feature_list) :
        phenotypes[subject_i][biobank_codes[feature_list[k]][1]]
            = phenotypes[subject_j][biobank_codes[feature_list[k]][1]]}

\* C9: the custom similarity returns the arithmetic mean of the 0/1
\* indicators of its features, a value in [0,1]; a mean of exactly 0.5 is
\* not above the threshold 0.5; an empty feature list returns exactly 0 and
\* never divides.
CustomReturnsMean ==
    /\ sim_pc # "ZeroDivisionError"
    /\ (sim_strategy = "custom" /\ sim_pc = "returned") =>
          /\ \A k \in 1..Len(feature_list) :
                FeatureScore(phenotypes, biobank_codes, subject_i, subject_j, feature_list[k]) \in {0, 1}
          /\ IF Len(feature_list) = 0
             THEN sim_result = R(0, 1)
             ELSE /\ sim_result.den = Len(feature_list)
                  /\ sim_result.num = SumOfIndicators(Len(feature_list))
                  /\ 0 <= sim_result.num /\ sim_result.num <= sim_result.den
          /\ (Len(feature_list) = 2 /\ SumOfIndicators(2) = 1) =>
                /\ 2 * sim_result.num = sim_result.den
                /\ ~Exceeds(sim_result, R(1, 2))
          /\ (Len(feature_list) > 0 /\ \A k \in 1..Len(feature_list) : feature_list[k] \in FirstColumnFeatures) =>
                sim_result.num = Cardinality(FirstColumnMatches)

\* C9 witness: over [SEX, AGE] the two subjects match on sex only and the
\* call has returned.
CustomReturnedHalf ==
    /\ sim_strategy = "custom"
    /\ sim_pc = "returned"
    /\ feature_list = <<"SEX", "AGE">>
    /\ phenotypes[subject_i]["31-0.0"] = phenotypes[subject_j]["31-0.0"]
    /\ phenotypes[subject_i]["21003-2.0"] = "a"
    /\ phenotypes[subject_j]["21003-2.0"] = "b"
    /\ sim_result = R(1, 2)
\* ------------------------------------------------------------------------
\* construct_population_graph (src/preprocess.py:187-292).  A feature block
\* is the sequence of its rows and a row the sequence of its columns; the
\* blocks considered have one column.  Every pandas, numpy and sklearn call
\* is modelled by the array operation it performs (row selection by a
\* boolean mask, column-wise concatenation, fit, transform); the Python
\* container types the values travel in are not modelled.

\* The values of a measurement.
Measurements == {0, 1}

\* The blocks of n rows a provider can return.
Blocks(n) == [1..n -> {<<m>> : m \in Measurements}]

\* np.concatenate([a, b, c], axis=1): the rows side by side; numpy raises
\* ValueError unless the three arrays have the same number of rows.  A
\* disabled feature family is pd.DataFrame(), an array of no rows.
Concatenate(a, b, c) ==
    IF Len(a) = Len(b) /\ Len(b) = Len(c)
    THEN [raised |-> "none", rows |-> [k \in 1..Len(a) |-> a[k] \o b[k] \o c[k]]]
    ELSE [raised |-> "ValueError", rows |-> <<>>]

AllRows(data, mask) == data

\* data[train_mask]: the rows at the True positions, in order.
RECURSIVE TrainRows(_, _)
TrainRows(data, mask) ==
    IF Len(data) = 0 THEN <<>>
    ELSE IF mask[1]
         THEN <<data[1]>> \o TrainRows(Tail(data), Tail(mask))
         ELSE TrainRows(Tail(data), Tail(mask))

RECURSIVE ColumnSum(_)
ColumnSum(rows) == IF Len(rows) = 0 THEN 0 ELSE rows[1][1] + ColumnSum(Tail(rows))

RECURSIVE ColumnSumOfSquares(_)
ColumnSumOfSquares(rows) == IF Len(rows) = 0 THEN 0 ELSE rows[1][1] * rows[1][1] + ColumnSumOfSquares(Tail(rows))

\* StandardScaler().fit(rows): n_samples_seen_, and the sums that give
\* mean_ = sum / n and var_ = sumsq / n - mean_^2.
StandardScalerFit(rows) ==
    [fitted |-> TRUE, n |-> Len(rows), sum |-> ColumnSum(rows), sumsq |-> ColumnSumOfSquares(rows)]

\* (x - mean_) / scale_ as an exact quantity: num / sqrt(radicand), or
\* num / n when the variance is zero (scale_ is then 1).
Standardized(x, fit) ==
    [num |-> fit.n * x - fit.sum, radicand |-> fit.n * fit.sumsq - fit.sum * fit.sum, n |-> fit.n]

\* scaler.transform(data): every row of data.
StandardScalerTransform(fit, data) == [k \in 1..Len(data) |-> <<Standardized(data[k][1], fit)>>]

\* PCA(random_state=0).fit(rows): mean_ and components_ are determined by
\* the rows given to fit, which stand for them.
PCAFit(rows) == [fitted |-> TRUE, rows |-> rows]

\* connectivity_pca.transform(data): every row of data, projected.
PCATransform(fit, data) == [k \in 1..Len(data) |-> <<[projected |-> data[k], by |-> fit.rows]>>]

InitGraph ==
    /\ IdleEdges
    /\ IdleSplit
    /\ IdleSim
    /\ IdleAssembly
    /\ g_pc = "start"
    /\ functional \in BOOLEAN
    /\ pca \in BOOLEAN
    /\ structural \in BOOLEAN
    /\ euler \in BOOLEAN
    /\ \E n \in 1..MaxGraphSubjects :
         /\ subject_ids = SubjectIndex(n)
         /\ \E f \in (IF functional THEN Blocks(n) ELSE {<<>>}) :
              \E s \in (IF structural THEN Blocks(n) ELSE {<<>>}) :
                 \E e \in (IF euler THEN Blocks(n) ELSE {<<>>}) :
                    provided = [functional |-> f, structural |-> s, euler |-> e,
                                ages |-> [k \in 1..n |-> 60 + k]]
    /\ functional_data = provided.functional
    /\ structural_data = provided.structural
    /\ euler_data = provided.euler
    /\ features = [raised |-> "none", rows |-> <<>>]
    /\ labels = <<>>
    /\ g_masks = [raised |-> "none", masks |-> <<>>]
    /\ connectivity_pca = [fitted |-> FALSE, rows |-> <<>>]
    /\ structural_scaler = [fitted |-> FALSE, n |-> 0, sum |-> 0, sumsq |-> 0]
    /\ euler_scaler = [fitted |-> FALSE, n |-> 0, sum |-> 0, sumsq |-> 0]

\* Lines 234-240: the first feature matrix and the label list.
Collect ==
    /\ g_pc = "start"
    /\ features' = Concatenate(functional_data, structural_data, euler_data)
    /\ labels' = <<provided.ages>>
    /\ g_pc' = IF Concatenate(functional_data, structural_data, euler_data).raised = "none"
               THEN "collected" ELSE "ValueError"
    /\ UNCHANGED <<functional, pca, structural, euler, provided, functional_data, structural_data, euler_data, g_masks, connectivity_pca, structural_scaler, euler_scaler>>
    /\ UNCHANGED <<subject_ids, assembly_vars>>
    /\ UNCHANGED not_graph_vars

\* Lines 243-244: the stratified split (test_size=None: 0.1) of the rows
\* of features, and its masks.
SplitSubjects ==
    /\ g_pc = "collected"
    /\ \E outer \in ShuffleSplits(Len(features.rows), TenthCeil(Len(features.rows))) :
         \E inner \in ShuffleSplits(Len(outer[1]), TenthCeil(Len(outer[1]))) :
            g_masks' = GetSubjectSplitMasks(StratifiedResult(outer, inner)[1],
                                            StratifiedResult(outer, inner)[2],
                                            StratifiedResult(outer, inner)[3])
    /\ g_pc' = "masked"
    /\ UNCHANGED <<functional, pca, structural, euler, provided, functional_data, structural_data, euler_data, features, labels, connectivity_pca, structural_scaler, euler_scaler>>
    /\ UNCHANGED <<subject_ids, assembly_vars>>
    /\ UNCHANGED not_graph_vars

\* Line 243 raises: see StratifiedSplitFails.
SplitSubjectsFails ==
    /\ g_pc = "collected"
    /\ g_pc' = "ValueError"
    /\ UNCHANGED <<subject_ids, pipeline_vars, assembly_vars>>
    /\ UNCHANGED not_graph_vars

\* Lines 90-93 and 247-248: PCA fitted on the train rows, applied to all.
FunctionalPCA ==
    /\ g_pc = "masked"
    /\ IF functional /\ pca
       THEN /\ connectivity_pca' = PCAFit(TrainRows(functional_data, g_masks.masks[1]))
            /\ functional_data' = PCATransform(PCAFit(TrainRows(functional_data, g_masks.masks[1])), functional_data)
       ELSE UNCHANGED <<connectivity_pca, functional_data>>
    /\ g_pc' = "pca_done"
    /\ UNCHANGED <<functional, pca, structural, euler, provided, structural_data, euler_data, features, labels, g_masks, structural_scaler, euler_scaler>>
    /\ UNCHANGED <<subject_ids, assembly_vars>>
    /\ UNCHANGED not_graph_vars

\* Lines 251-254: the structural scaler.
ScaleStructural ==
    /\ g_pc = "pca_done"
    /\ IF structural
       THEN /\ structural_scaler' = StandardScalerFit(TrainRows(structural_data, g_masks.masks[1]))
            /\ structural_data' = StandardScalerTransform(StandardScalerFit(TrainRows(structural_data, g_masks.masks[1])), structural_data)
       ELSE UNCHANGED <<structural_scaler, structural_data>>
    /\ g_pc' = "structural_done"
    /\ UNCHANGED <<functional, pca, structural, euler, provided, functional_data, euler_data, features, labels, g_masks, connectivity_pca, euler_scaler>>
    /\ UNCHANGED <<subject_ids, assembly_vars>>
    /\ UNCHANGED not_graph_vars

\* Lines 257-260: the Euler-index scaler.
ScaleEuler ==
    /\ g_pc = "structural_done"
    /\ IF euler
       THEN /\ euler_scaler' = StandardScalerFit(TrainRows(euler_data, g_masks.masks[1]))
            /\ euler_data' = StandardScalerTransform(StandardScalerFit(TrainRows(euler_data, g_masks.masks[1])), euler_data)
       ELSE UNCHANGED <<euler_scaler, euler_data>>
    /\ g_pc' = "euler_done"
    /\ UNCHANGED <<functional, pca, structural, euler, provided, functional_data, structural_data, features, labels, g_masks, connectivity_pca, structural_scaler>>
    /\ UNCHANGED <<subject_ids, assembly_vars>>
    /\ UNCHANGED not_graph_vars

\* Lines 263-268 and 275-277: the unified feature matrix and the tensors.
\* labels is a list of one list; transpose_(0, 1) makes it one row a subject.
Unify ==
    /\ g_pc = "euler_done"
    /\ features' = Concatenate(functional_data, structural_data, euler_data)
    /\ IF Concatenate(functional_data, structural_data, euler_data).raised = "none"
       THEN /\ feature_tensor' = Concatenate(functional_data, structural_data, euler_data).rows
            /\ label_tensor' = [k \in 1..Len(labels[1]) |-> <<labels[1][k]>>]
            /\ train_mask' = g_masks.masks[1]
            /\ validate_mask' = g_masks.masks[2]
            /\ test_mask' = g_masks.masks[3]
            /\ g_pc' = "unified"
       ELSE /\ UNCHANGED <<feature_tensor, label_tensor, train_mask, validate_mask, test_mask>>
            /\ g_pc' = "ValueError"
    /\ UNCHANGED <<functional, pca, structural, euler, provided, functional_data, structural_data, euler_data, labels, g_masks, connectivity_pca, structural_scaler, euler_scaler>>
    /\ UNCHANGED <<subject_ids, edge_index, population_graph>>
    /\ UNCHANGED not_graph_vars

NextGraph ==
    \/ Collect
    \/ SplitSubjects
    \/ SplitSubjectsFails
    \/ FunctionalPCA
    \/ ScaleStructural
    \/ ScaleEuler
    \/ Unify

SpecGraph == InitGraph /\ [][NextGraph]_vars

MasksComputed ==
    /\ g_masks.raised = "none"
    /\ Len(g_masks.masks) = 3
    /\ g_pc \notin {"start", "collected"}

\* The blocks that agree with block on every train row.
SameTrainRows(block) ==
    {alt \in Blocks(Len(block)) : \A k \in 1..Len(block) : g_masks.masks[1][k] => alt[k] = block[k]}

\* C5: no PCA or scaler is fitted before the masks are computed; each fit
\* is the fit of the train rows alone, so any data with the same train rows
\* gives the same fitted parameters; and the fitted transform is applied to
\* every row.
FitOnTrainRowsAfterMasks ==
    /\ (connectivity_pca.fitted \/ structural_scaler.fitted \/ euler_scaler.fitted) => MasksComputed
    /\ ~MasksComputed =>
          /\ functional_data = provided.functional
          /\ structural_data = provided.structural
          /\ euler_data = provided.euler
    /\ connectivity_pca.fitted =>
          /\ \A alt \in SameTrainRows(provided.functional) :
                PCAFit(TrainRows(alt, g_masks.masks[1])) = connectivity_pca
          /\ \A k \in 1..Len(provided.functional) : g_masks.masks[1][k] =>
                \E r \in 1..Len(connectivity_pca.rows) : connectivity_pca.rows[r] = provided.functional[k]
          /\ Len(connectivity_pca.rows) = Cardinality({k \in 1..Len(provided.functional) : g_masks.masks[1][k]})
          /\ functional_data = PCATransform(connectivity_pca, provided.functional)
    /\ structural_scaler.fitted =>
          /\ \A alt \in SameTrainRows(provided.structural) :
                StandardScalerFit(TrainRows(alt, g_masks.masks[1])) = structural_scaler
          /\ structural_scaler.n = Cardinality({k \in 1..Len(provided.structural) : g_masks.masks[1][k]})
          /\ Len(structural_data) = Len(provided.structural)
          /\ structural_data = StandardScalerTransform(structural_scaler, provided.structural)
    /\ euler_scaler.fitted =>
          /\ \A alt \in SameTrainRows(provided.euler) :
                StandardScalerFit(TrainRows(alt, g_masks.masks[1])) = euler_scaler
          /\ euler_scaler.n = Cardinality({k \in 1..Len(provided.euler) : g_masks.masks[1][k]})
          /\ Len(euler_data) = Len(provided.euler)
          /\ euler_data = StandardScalerTransform(euler_scaler, provided.euler)

\* C5 witness: a run fitted the PCA and both scalers while a validation or
\* test row of each block differs from every train row of that block.
AllThreeFittedWithDistinctHeldOutRows ==
    /\ g_pc = "unified"
    /\ connectivity_pca.fitted /\ structural_scaler.fitted /\ euler_scaler.fitted
    /\ \A b \in {"functional", "structural", "euler"} :
         \E k \in 1..Len(provided[b]) :
            /\ ~g_masks.masks[1][k]
            /\ \A j \in 1..Len(provided[b]) : g_masks.masks[1][j] => provided[b][j] # provided[b][k]

\* ------------------------------------------------------------------------
\* Graph assembly (src/preprocess.py:270-292): the edge index and the Data
\* record built from the tensors.  torch.save of the record (line 290) is
\* outside the model.

\* What construct_edge_list returns for an index of n subjects when Q is
\* the set of position pairs scoring above the threshold.
RECURSIVE EdgeListFrom(_, _, _, _)
EdgeListFrom(i, j, n, Q) ==
    IF i >= n THEN <<<<>>, <<>>>>
    ELSE IF j >= n THEN EdgeListFrom(i + 1, i + 2, n, Q)
    ELSE LET rest == EdgeListFrom(i, j + 1, n, Q)
         IN  IF <<i, j>> \in Q
             THEN <<<<i, j>> \o rest[1], <<j, i>> \o rest[2]>>
             ELSE rest

\* The tensors and subject identifiers the assembly can be handed: row,
\* label and mask counts are those of its inputs, whatever they are (the
\* runs of SpecGraph hand it the agreeing ones).
InitAssemble ==
    /\ IdleEdges
    /\ IdleSplit
    /\ IdleSim
    /\ IdlePipeline
    /\ g_pc = "unified"
    /\ \E n \in 0..MaxDim : subject_ids = SubjectIndex(n)
    /\ \E rows \in 0..MaxDim : feature_tensor = [k \in 1..rows |-> <<0>>]
    /\ \E n \in 0..MaxDim : label_tensor = [k \in 1..n |-> <<60 + k>>]
    /\ \E n \in 0..MaxDim : train_mask = [k \in 1..n |-> k = 1]
    /\ \E n \in 0..MaxDim : validate_mask = [k \in 1..n |-> k = 2]
    /\ \E n \in 0..MaxDim : test_mask = [k \in 1..n |-> k > 2]
    /\ edge_index = <<<<>>, <<>>>>
    /\ population_graph = [returned |-> FALSE]

\* Lines 271-273: the edge index over the subject identifiers.
ConstructEdgeIndex ==
    /\ g_pc = "unified"
    /\ \E Q \in SUBSET UpperPairs(Len(subject_ids)) :
         edge_index' = EdgeListFrom(0, 1, Len(subject_ids), Q)
    /\ g_pc' = "edges"
    /\ UNCHANGED <<subject_ids, pipeline_vars, feature_tensor, label_tensor, train_mask, validate_mask, test_mask, population_graph>>
    /\ UNCHANGED not_graph_vars

\* Lines 279-292: Data(...) takes the tensors as they are; nothing compares
\* their sizes.
AssembleGraph ==
    /\ g_pc = "edges"
    /\ population_graph' = [returned |-> TRUE,
                            x |-> feature_tensor,
                            edge_index |-> edge_index,
                            y |-> label_tensor,
                            train_mask |-> train_mask,
                            test_mask |-> test_mask,
                            validate_mask |-> validate_mask]
    /\ g_pc' = "returned"
    /\ UNCHANGED <<subject_ids, pipeline_vars, feature_tensor, label_tensor, train_mask, validate_mask, test_mask, edge_index>>
    /\ UNCHANGED not_graph_vars

NextAssemble ==
    \/ ConstructEdgeIndex
    \/ AssembleGraph

SpecAssemble == InitAssemble /\ [][NextAssemble]_vars

====
